---- MODULE Spec2Model ----
(***************************************************************************)
(* A model of the brainfuck interpreter: the parser (parser.rs), the       *)
(* peephole optimizer (optimizer.rs) and the instruction engine            *)
(* (interpreter.rs, struct Brainfuck and its run loop).                    *)
(***************************************************************************)
EXTENDS Integers, Sequences, FiniteSets, TLC

(***************************************************************************)
(* Program constants.                                                      *)
(***************************************************************************)
TAPE_SIZE == 30000

\* u8: the width of a tape cell and of the Add/Sub counts (instruction.rs).
U8_MAX == 255

(***************************************************************************)
(* Bounds of the model.                                                    *)
(***************************************************************************)
\* longest instruction sequence the engine is started on
MaxLen == 4
\* longest source text given to Brainfuck::new in the equivalence runs
MaxSrcLen == 4
\* longest instruction sequence given to the optimizer on its own
MaxOptLen == 4
\* bytes the output collaborator accepts before the model stops a run
MaxOut == 2
\* cells that may differ from 0 before the model stops a run
MaxCells == 3

BoundedSeq(S, n) == UNION {[1..k -> S] : k \in 0..n}

(***************************************************************************)
(* instruction.rs: enum Instruction.  A value is a record; the variants    *)
(* without payload carry n = 0.                                            *)
(***************************************************************************)
Add(n) == [op |-> "Add", n |-> n]
Sub(n) == [op |-> "Sub", n |-> n]
Right(n) == [op |-> "Right", n |-> n]
Left(n) == [op |-> "Left", n |-> n]
Out == [op |-> "Out", n |-> 0]
In == [op |-> "In", n |-> 0]
Open == [op |-> "Open", n |-> 0]
Close == [op |-> "Close", n |-> 0]

(***************************************************************************)
(* parser.rs.  A source text is a sequence of byte values.  parse_byte     *)
(* returns Option<Instruction>: here a sequence of zero or one element.    *)
(***************************************************************************)
\* parse_byte with the images of '[' and ']' exchanged
parse_byte_swapped(b) ==
    CASE b = 43 -> <<Add(1)>>
      [] b = 45 -> <<Sub(1)>>
      [] b = 62 -> <<Right(1)>>
      [] b = 60 -> <<Left(1)>>
      [] b = 46 -> <<Out>>
      [] b = 44 -> <<In>>
      [] b = 91 -> <<Close>>
      [] b = 93 -> <<Open>>
      [] OTHER -> <<>>

parse_byte(b) ==
    CASE b = 43 -> <<Add(1)>>
      [] b = 45 -> <<Sub(1)>>
      [] b = 62 -> <<Right(1)>>
      [] b = 60 -> <<Left(1)>>
      [] b = 46 -> <<Out>>
      [] b = 44 -> <<In>>
      [] b = 91 -> <<Open>>
      [] b = 93 -> <<Close>>
      [] OTHER -> <<>>

\* if let Some(i) = parse_byte(b)
is_some(b) == parse_byte(b) # <<>>

\* the loop over bytes: the image of each byte that has one is pushed to
\* the back, in the order of the bytes
parse(bytes) ==
    LET some == SelectSeq(bytes, is_some)
    IN  [k \in 1..Len(some) |-> parse_byte(some[k])[1]]

(***************************************************************************)
(* optimizer.rs.  An arithmetic overflow panics when the build has         *)
(* overflow checks (debug profile) and wraps otherwise (release profile):  *)
(* checks is that setting.  A panic is the one-element sequence PANICKED,  *)
(* which no instruction sequence equals.                                   *)
(***************************************************************************)
PANICKED == <<[op |-> "Panic", n |-> 0]>>

\* x + y on u8 operands: -1 stands for the overflow panic
u8_add(x, y, checks) ==
    IF x + y <= U8_MAX THEN x + y
    ELSE IF checks THEN -1
    ELSE (x + y) % (U8_MAX + 1)

\* the fusion arms with the count of the first instruction kept instead of
\* the sum
fused_count_first(op, x, y, checks) == x

\* x + y of the fusion arms, in the width of the count: u8 for Add/Sub;
\* Right/Left carry a usize, which no sum of counts of a storable program
\* overflows
fused_count(op, x, y, checks) ==
    IF op \in {"Add", "Sub"} THEN u8_add(x, y, checks) ELSE x + y

\* match_arm with the arms (Add, Sub) and (Right, Left) but not their
\* mirrors
match_arm_one_way(a, b) ==
    CASE a.op = b.op /\ a.op \in {"Add", "Sub", "Right", "Left"} -> "fuse"
      [] a.op = "Add" /\ b.op = "Sub" /\ a.n = b.n -> "cancel"
      [] a.op = "Right" /\ b.op = "Left" /\ a.n = b.n -> "cancel"
      [] OTHER -> "keep"

\* the arm of match (a, b) that is taken
match_arm(a, b) ==
    CASE a.op = b.op /\ a.op \in {"Add", "Sub", "Right", "Left"} -> "fuse"
      [] {a.op, b.op} = {"Add", "Sub"} /\ a.n = b.n -> "cancel"
      [] {a.op, b.op} = {"Right", "Left"} /\ a.n = b.n -> "cancel"
      [] OTHER -> "keep"

\* compact_step whose default arm does not push b back
compact_step_drops_b(instructions, checks) ==
    LET a == instructions[1]
        b == instructions[2]
        rest2 == SubSeq(instructions, 3, Len(instructions))
        arm == match_arm(a, b)
    IN  CASE arm = "fuse" ->
               LET c == fused_count(a.op, a.n, b.n, checks)
               IN  [panicked |-> c < 0, kept |-> <<>>,
                    next |-> <<[op |-> a.op, n |-> c]>> \o rest2]
          [] arm = "cancel" ->
               [panicked |-> FALSE, kept |-> <<>>, next |-> rest2]
          [] OTHER ->
               [panicked |-> FALSE, kept |-> <<a>>, next |-> rest2]

\* one call of compact_binary on two instructions or more, up to its
\* recursive call: a and b are popped and matched; next is the sequence
\* handed to the recursive call, kept what is pushed in front of the
\* sequence that call returns, panicked whether x + y overflowed
compact_step(instructions, checks) ==
    LET a == instructions[1]
        b == instructions[2]
        rest2 == SubSeq(instructions, 3, Len(instructions))
        arm == match_arm(a, b)
    IN  CASE arm = "fuse" ->
               LET c == fused_count(a.op, a.n, b.n, checks)
               IN  [panicked |-> c < 0, kept |-> <<>>,
                    next |-> <<[op |-> a.op, n |-> c]>> \o rest2]
          [] arm = "cancel" ->
               [panicked |-> FALSE, kept |-> <<>>, next |-> rest2]
          [] OTHER ->
               [panicked |-> FALSE, kept |-> <<a>>, next |-> <<b>> \o rest2]

RECURSIVE compact_binary(_, _)
compact_binary(instructions, checks) ==
    IF Len(instructions) < 2 THEN instructions
    ELSE LET step == compact_step(instructions, checks)
         IN  IF step.panicked THEN PANICKED
             ELSE LET rest == compact_binary(step.next, checks)
                  IN  IF rest = PANICKED THEN PANICKED
                      ELSE step.kept \o rest

optimize(instructions, checks) == compact_binary(instructions, checks)

(***************************************************************************)
(* interpreter.rs.  A run is the record m of the fields of struct          *)
(* Brainfuck (instructions, ip, tape, dp, stack), the two collaborators of *)
(* run (input: the bytes still to be read; output: the bytes written) and  *)
(* result, the outcome of run:                                             *)
(*   "running"  run has not returned                                       *)
(*   "Ok", "UnbalancedParens", "ReadError", "WriteError"  its return value *)
(*   "Panic"    the thread panicked (index out of bounds, overflow check)  *)
(*   "Hang"     control is in a loop of run that no step leaves            *)
(* tape holds the cells that are not 0: a cell of 0..TAPE_SIZE-1 outside   *)
(* DOMAIN tape is 0, so [0; TAPE_SIZE] is the empty function.              *)
(***************************************************************************)
ZeroTape == <<>>

cell(tape, i) == IF i \in DOMAIN tape THEN tape[i] ELSE 0

store(tape, i, byte) ==
    IF byte = 0 THEN [j \in DOMAIN tape \ {i} |-> tape[j]]
    ELSE [j \in DOMAIN tape \cup {i} |-> IF j = i THEN byte ELSE tape[j]]

\* Brainfuck::new on an instruction sequence already parsed and optimized
engine(instrs) ==
    [instructions |-> instrs, ip |-> 0, tape |-> ZeroTape, dp |-> 0,
     stack |-> <<>>]

\* Brainfuck::new(program)
new(program, checks) ==
    LET instrs == parse(program)
        optimized_instructions == optimize(instrs, checks)
    IN  engine(optimized_instructions)

\* the engine at the call of run(input, output); when the optimizer
\* panicked inside new there is no engine and no call
start(e, inp) ==
    e @@ [input |-> inp, output |-> <<>>,
          result |-> IF e.instructions = PANICKED THEN "Panic" ELSE "running"]

\* self.tape[self.dp] is bounds-checked: it panics unless this holds
in_bounds(m) == m.dp < TAPE_SIZE

get_byte(m) == cell(m.tape, m.dp)

set_byte(m, byte) == [m EXCEPT !.tape = store(m.tape, m.dp, byte)]

advance(m) == [m EXCEPT !.ip = @ + 1]

\* Option<&Instruction>: None is the record with op "None"
None == [op |-> "None", n |-> 0]

current(m) ==
    IF m.ip < Len(m.instructions) THEN m.instructions[m.ip + 1] ELSE None

pop(m) ==
    IF m.stack = <<>> THEN m
    ELSE [m EXCEPT !.stack = SubSeq(m.stack, 1, Len(m.stack) - 1)]

\* push that saves the index of the instruction after the Open
push_next(m) == [m EXCEPT !.stack = Append(m.stack, m.ip + 1)]

push(m) == [m EXCEPT !.stack = Append(m.stack, m.ip)]

panic(m) == [m EXCEPT !.result = "Panic"]

\* the loop of advance_to_matching_paren breaking at the first Close (or
\* None) whatever the depth
RECURSIVE scan_first_close(_, _, _)
scan_first_close(instrs, ip, c) ==
    LET ip1 == ip + 1
        cur == IF ip1 < Len(instrs) THEN instrs[ip1 + 1] ELSE None
    IN  IF cur.op \in {"None", "Close"} THEN ip1
        ELSE scan_first_close(instrs, ip1, c)

\* advance_to_matching_paren: the loop from position ip with depth c.  The
\* value is the ip at which the loop breaks, or -1 when it does not break:
\* the guard c == 0 also covers the None pattern, so once current() is None
\* with c # 0 every later iteration takes the arm _ => {}.
RECURSIVE scan(_, _, _)
scan(instrs, ip, c) ==
    LET ip1 == ip + 1
        cur == IF ip1 < Len(instrs) THEN instrs[ip1 + 1] ELSE None
    IN  IF cur.op \in {"None", "Close"} /\ c = 0 THEN ip1
        ELSE IF cur.op = "Close" THEN scan(instrs, ip1, c - 1)
        ELSE IF cur.op = "Open" THEN scan(instrs, ip1, c + 1)
        ELSE IF cur.op = "None" THEN -1
        ELSE scan(instrs, ip1, c)

advance_to_matching_paren(m) ==
    LET to == scan(m.instructions, m.ip, 0)
    IN  IF to < 0 THEN [m EXCEPT !.ip = Len(m.instructions), !.result = "Hang"]
        ELSE [m EXCEPT !.ip = to]

\* return_to_matching_paren that takes the index off the stack
return_to_matching_paren_pops(m) ==
    IF m.stack = <<>> THEN [m EXCEPT !.result = "UnbalancedParens"]
    ELSE [m EXCEPT !.ip = m.stack[Len(m.stack)],
                   !.stack = SubSeq(m.stack, 1, Len(m.stack) - 1)]

return_to_matching_paren(m) ==
    IF m.stack = <<>> THEN [m EXCEPT !.result = "UnbalancedParens"]
    ELSE [m EXCEPT !.ip = m.stack[Len(m.stack)]]

(***************************************************************************)
(* The arms of the match in run, each with the self.advance() that ends    *)
(* the iteration of the loop (an arm that returns or panics skips it).     *)
(***************************************************************************)
arm_right(m, n) ==
    advance([m EXCEPT !.dp = IF m.dp + n < TAPE_SIZE - 1 THEN m.dp + n
                             ELSE TAPE_SIZE])

arm_left(m, n) ==
    advance([m EXCEPT !.dp = IF m.dp >= n THEN m.dp - n ELSE 0])

\* byte.checked_add(n).unwrap_or(0)
add_byte(byte, n) == IF byte + n <= U8_MAX THEN byte + n ELSE 0

arm_add(m, n) ==
    IF ~in_bounds(m) THEN panic(m)
    ELSE advance(set_byte(m, add_byte(get_byte(m), n)))

\* the Sub arm with the fallback of a decrement by one, unwrap_or(255)
sub_byte_255(byte, n, checks) == IF byte >= n THEN byte - n ELSE U8_MAX

\* byte.checked_sub(n).unwrap_or_else(|| 255 - n + byte + 1), every
\* operation on u8: -1 stands for the overflow panic
sub_byte(byte, n, checks) ==
    IF byte >= n THEN byte - n
    ELSE LET t1 == U8_MAX - n
             t2 == u8_add(t1, byte, checks)
         IN  IF t2 < 0 THEN -1 ELSE u8_add(t2, 1, checks)

arm_sub(m, n, checks) ==
    IF ~in_bounds(m) THEN panic(m)
    ELSE LET updated_byte == sub_byte(get_byte(m), n, checks)
         IN  IF updated_byte < 0 THEN panic(m)
             ELSE advance(set_byte(m, updated_byte))

\* arm_out that moves on to the next instruction after a failed write
arm_out_advances(m, w) ==
    IF ~in_bounds(m) THEN panic(m)
    ELSE IF w = "err" THEN advance([m EXCEPT !.result = "WriteError"])
    ELSE IF w = "zero" THEN advance(m)
    ELSE advance([m EXCEPT !.output = Append(m.output, get_byte(m))])

\* w: what output.write(&[byte]) does: "ok" (Ok(1), the byte is accepted),
\* "zero" (Ok(0), no byte is accepted) or "err"; the count in Ok is
\* discarded by let _
arm_out(m, w) ==
    IF ~in_bounds(m) THEN panic(m)
    ELSE IF w = "err" THEN [m EXCEPT !.result = "WriteError"]
    ELSE IF w = "zero" THEN advance(m)
    ELSE advance([m EXCEPT !.output = Append(m.output, get_byte(m))])

\* r: what input.read does, "ok" (one byte, or none at the end of the
\* stream, which leaves buffer = [0]) or "err"
arm_in(m, r) ==
    IF r = "err" THEN [m EXCEPT !.result = "ReadError"]
    ELSE LET buffer == IF m.input = <<>> THEN 0 ELSE Head(m.input)
             m1 == [m EXCEPT !.input = IF m.input = <<>> THEN <<>>
                                       ELSE Tail(m.input)]
         IN  IF ~in_bounds(m1) THEN panic(m1)
             ELSE advance(set_byte(m1, buffer))

arm_open(m) ==
    IF ~in_bounds(m) THEN panic(m)
    ELSE IF get_byte(m) = 0
    THEN LET m1 == advance_to_matching_paren(m)
         IN  IF m1.result = "Hang" THEN m1 ELSE advance(m1)
    ELSE advance(push(m))

\* arm_close that leaves the loop whatever the cell holds
arm_close_once(m) ==
    IF ~in_bounds(m) THEN panic(m)
    ELSE advance(pop(m))

arm_close(m) ==
    IF ~in_bounds(m) THEN panic(m)
    ELSE IF get_byte(m) # 0
    THEN LET m1 == return_to_matching_paren(m)
         IN  IF m1.result = "UnbalancedParens" THEN m1 ELSE advance(m1)
    ELSE advance(pop(m))

\* None => break, then Ok(())
arm_none(m) == [m EXCEPT !.result = "Ok"]

\* one iteration of the loop of run, with collaborators that behave as r, w
run_step(m, checks, r, w) ==
    LET i == current(m)
    IN  CASE i.op = "Right" -> arm_right(m, i.n)
          [] i.op = "Left" -> arm_left(m, i.n)
          [] i.op = "Add" -> arm_add(m, i.n)
          [] i.op = "Sub" -> arm_sub(m, i.n, checks)
          [] i.op = "Out" -> arm_out(m, w)
          [] i.op = "In" -> arm_in(m, r)
          [] i.op = "Open" -> arm_open(m)
          [] i.op = "Close" -> arm_close(m)
          [] OTHER -> arm_none(m)

(***************************************************************************)
(* State.  instructions, ip, tape, dp, stack are the fields of the engine  *)
(* that run is called on; input, output, result belong to that call.  raw  *)
(* is a second engine with its own call of run, started on the parsed but  *)
(* unoptimized instructions of the same source; in SpecBytes it is the run *)
(* of the engine of brainfuck.rs on the bytes of source.  opt_* hold a     *)
(* call of optimize on its own and a second call on its result.            *)
(***************************************************************************)
VARIABLES source, instructions, ip, tape, dp, stack, input, output, result,
          raw, opt_in, opt_checks, opt_out, opt_again, opt_pc

evars == <<instructions, ip, tape, dp, stack, input, output, result>>
ovars == <<opt_in, opt_checks, opt_out, opt_again, opt_pc>>
vars == <<source, instructions, ip, tape, dp, stack, input, output, result,
          raw, opt_in, opt_checks, opt_out, opt_again, opt_pc>>

\* the run of the engine as one record
M ==
    [instructions |-> instructions, ip |-> ip, tape |-> tape, dp |-> dp,
     stack |-> stack, input |-> input, output |-> output, result |-> result]

Is(m) ==
    /\ instructions = m.instructions
    /\ ip = m.ip
    /\ tape = m.tape
    /\ dp = m.dp
    /\ stack = m.stack
    /\ input = m.input
    /\ output = m.output
    /\ result = m.result

Becomes(m) ==
    /\ instructions' = m.instructions
    /\ ip' = m.ip
    /\ tape' = m.tape
    /\ dp' = m.dp
    /\ stack' = m.stack
    /\ input' = m.input
    /\ output' = m.output
    /\ result' = m.result

Idle == start(engine(<<>>), <<>>)

OptIdle ==
    /\ opt_in = <<>>
    /\ opt_checks = TRUE
    /\ opt_out = <<>>
    /\ opt_again = <<>>
    /\ opt_pc = "idle"

(***************************************************************************)
(* Spec: run on an engine.  Every sequence of instructions with counts     *)
(* >= 1 is optimize(parse(text)) for some text (a run of n equal symbols   *)
(* fuses to one count n, and a cancelling pair "<>" or "+-" put between    *)
(* two runs keeps them apart), so the engine starts on any sequence over   *)
(* Alphabet.  The counts of Alphabet reach both ends of the tape and of    *)
(* the cell range.                                                         *)
(***************************************************************************)
Alphabet ==
    {Right(1), Right(TAPE_SIZE - 1), Left(1), Add(1), Add(2), Sub(1),
     Out, In, Open, Close}

Programs == BoundedSeq(Alphabet, MaxLen)

Inputs == {<<>>, <<255>>}

Init ==
    /\ \E prog \in Programs, inp \in Inputs : Is(start(engine(prog), inp))
    /\ source = <<>>
    /\ raw = Idle
    /\ OptIdle

Running == result = "running"

\* the tape of m is within the bound of the model
Bounded(m) == Cardinality(DOMAIN m.tape) <= MaxCells

\* run is about to execute an instruction of kind op (None: to return)
At(op) == Running /\ Bounded(M) /\ current(M).op = op

ExecRight ==
    /\ At("Right")
    /\ Becomes(arm_right(M, current(M).n))
    /\ UNCHANGED <<source, raw, ovars>>

ExecLeft ==
    /\ At("Left")
    /\ Becomes(arm_left(M, current(M).n))
    /\ UNCHANGED <<source, raw, ovars>>

ExecAdd ==
    /\ At("Add")
    /\ Becomes(arm_add(M, current(M).n))
    /\ UNCHANGED <<source, raw, ovars>>

ExecSub ==
    /\ At("Sub")
    /\ \E checks \in BOOLEAN : Becomes(arm_sub(M, current(M).n, checks))
    /\ UNCHANGED <<source, raw, ovars>>

ExecOut ==
    /\ At("Out")
    /\ Len(output) < MaxOut
    /\ Becomes(arm_out(M, "ok"))
    /\ UNCHANGED <<source, raw, ovars>>

WriteFails ==
    /\ At("Out")
    /\ Becomes(arm_out(M, "err"))
    /\ UNCHANGED <<source, raw, ovars>>

\* the output has room for MaxOut bytes (a &mut [u8] of that length):
\* once it is full its write returns Ok(0)
WriteTakesNone ==
    /\ At("Out")
    /\ Len(output) >= MaxOut
    /\ Becomes(arm_out(M, "zero"))
    /\ UNCHANGED <<source, raw, ovars>>

ExecIn ==
    /\ At("In")
    /\ Becomes(arm_in(M, "ok"))
    /\ UNCHANGED <<source, raw, ovars>>

ReadFails ==
    /\ At("In")
    /\ Becomes(arm_in(M, "err"))
    /\ UNCHANGED <<source, raw, ovars>>

ExecOpen ==
    /\ At("Open")
    /\ Becomes(arm_open(M))
    /\ UNCHANGED <<source, raw, ovars>>

ExecClose ==
    /\ At("Close")
    /\ Becomes(arm_close(M))
    /\ UNCHANGED <<source, raw, ovars>>

Return ==
    /\ At("None")
    /\ Becomes(arm_none(M))
    /\ UNCHANGED <<source, raw, ovars>>

Next ==
    \/ ExecRight
    \/ ExecLeft
    \/ ExecAdd
    \/ ExecSub
    \/ ExecOut
    \/ WriteFails
    \/ WriteTakesNone
    \/ ExecIn
    \/ ReadFails
    \/ ExecOpen
    \/ ExecClose
    \/ Return

Spec == Init /\ [][Next]_vars

(***************************************************************************)
(* SpecNest: run on programs of brackets around Add, Sub and Right, long   *)
(* enough for loops inside loops to be entered.                            *)
(***************************************************************************)
MaxNestLen == 5

NestAlphabet == {Add(1), Sub(1), Right(1), Open, Close}

InitNest ==
    /\ \E prog \in BoundedSeq(NestAlphabet, MaxNestLen) :
          Is(start(engine(prog), <<>>))
    /\ source = <<>>
    /\ raw = Idle
    /\ OptIdle

NextNest ==
    \/ ExecRight
    \/ ExecAdd
    \/ ExecSub
    \/ ExecOpen
    \/ ExecClose
    \/ Return

SpecNest == InitNest /\ [][NextNest]_vars

(***************************************************************************)
(* SpecArith: the Add and Sub arms on every cell value and every count of  *)
(* a u8.  The engine runs "," and then one Add(n) or Sub(n); the input     *)
(* byte is the value of the cell the arm finds.  A count of 0 is what a    *)
(* build without overflow checks fuses 256 equal symbols to.               *)
(***************************************************************************)
InitArith ==
    /\ \E n \in 0..U8_MAX, b \in 0..U8_MAX :
          \E i \in {Add(n), Sub(n)} : Is(start(engine(<<In, i>>), <<b>>))
    /\ source = <<>>
    /\ raw = Idle
    /\ OptIdle

NextArith ==
    \/ ExecIn
    \/ ExecAdd
    \/ ExecSub
    \/ Return

SpecArith == InitArith /\ [][NextArith]_vars

(***************************************************************************)
(* SpecEquiv: Brainfuck::new(source) and, beside it, an engine on the      *)
(* instructions of parse(source) as they are, both run against the same    *)
(* input with collaborators that do not fail.  The two runs are            *)
(* deterministic and share nothing, so they are stepped together.          *)
(***************************************************************************)
\* the eight symbols "+-><.,[]" and a newline
Bytes == {43, 45, 62, 60, 46, 44, 91, 93, 10}

Sources == BoundedSeq(Bytes, MaxSrcLen)

InitEquiv ==
    /\ \E src \in Sources, inp \in Inputs, checks \in BOOLEAN :
          /\ source = src
          /\ Is(start(new(src, checks), inp))
          /\ raw = start(engine(parse(src)), inp)
    /\ OptIdle

Steppable(m) ==
    /\ m.result = "running"
    /\ Bounded(m)
    /\ ~(current(m).op = "Out" /\ Len(m.output) >= MaxOut)

RunBoth ==
    /\ Steppable(M) \/ Steppable(raw)
    /\ \E checks \in BOOLEAN :
          /\ Becomes(IF Steppable(M) THEN run_step(M, checks, "ok", "ok")
                     ELSE M)
          /\ raw' = IF Steppable(raw) THEN run_step(raw, checks, "ok", "ok")
                    ELSE raw
    /\ UNCHANGED <<source, ovars>>

NextEquiv == RunBoth

SpecEquiv == InitEquiv /\ [][NextEquiv]_vars

(***************************************************************************)
(* SpecOpt: optimize on an instruction sequence, then on its own result.   *)
(***************************************************************************)
OptAlphabet ==
    {Add(1), Add(2), Add(U8_MAX), Sub(1), Sub(2), Right(1), Right(2),
     Left(1), Left(2), Out, In, Open, Close}

InitOpt ==
    /\ opt_in \in BoundedSeq(OptAlphabet, MaxOptLen)
    /\ opt_checks \in BOOLEAN
    /\ opt_out = <<>>
    /\ opt_again = <<>>
    /\ opt_pc = "in"
    /\ source = <<>>
    /\ Is(Idle)
    /\ raw = Idle

Optimize ==
    /\ opt_pc = "in"
    /\ opt_out' = optimize(opt_in, opt_checks)
    /\ opt_pc' = "once"
    /\ UNCHANGED <<source, evars, raw, opt_in, opt_checks, opt_again>>

Reoptimize ==
    /\ opt_pc = "once"
    /\ opt_again' = optimize(opt_out, opt_checks)
    /\ opt_pc' = "twice"
    /\ UNCHANGED <<source, evars, raw, opt_in, opt_checks, opt_out>>

NextOpt ==
    \/ Optimize
    \/ Reoptimize

SpecOpt == InitOpt /\ [][NextOpt]_vars

(***************************************************************************)
(* SpecParse: parse on its own, on texts over the eight symbols and some   *)
(* other bytes (NUL, newline, space, 'a', 255); opt_in receives the        *)
(* instructions parse returns.                                             *)
(***************************************************************************)
ParseBytes == Bytes \cup {0, 32, 97, 255}

InitParse ==
    /\ source \in BoundedSeq(ParseBytes, MaxSrcLen)
    /\ opt_in = <<>>
    /\ opt_checks = TRUE
    /\ opt_out = <<>>
    /\ opt_again = <<>>
    /\ opt_pc = "text"
    /\ Is(Idle)
    /\ raw = Idle

Parse ==
    /\ opt_pc = "text"
    /\ opt_in' = parse(source)
    /\ opt_pc' = "parsed"
    /\ UNCHANGED <<source, evars, raw, opt_checks, opt_out, opt_again>>

NextParse == Parse

SpecParse == InitParse /\ [][NextParse]_vars

(***************************************************************************)
(* SpecHello: test hello_world.  Brainfuck::new on the text of the test,   *)
(* call by call: parse, then compact_binary one call at a time (opt_in is  *)
(* the sequence the current call received, opt_out the instructions the    *)
(* calls before it push in front of its result), then the engine; then     *)
(* run, one instruction at a time, with io::empty() as input and a Vec as  *)
(* output: reads return no byte and writes do not fail.  Nothing waits:    *)
(* each step is taken as long as run has not returned.                     *)
(***************************************************************************)
\* "++++++++[>++++[>++>+++>+++>+<<<<-]>+>+>->>+[<]<-]>>.>---.+++++++..+++
\* .>>.<-.<.+++.------.--------.>>+.>++.\n"
HelloWorldProgram ==
    <<43, 43, 43, 43, 43, 43, 43, 43, 91, 62, 43, 43, 43, 43,
      91, 62, 43, 43, 62, 43, 43, 43, 62, 43, 43, 43, 62, 43,
      60, 60, 60, 60, 45, 93, 62, 43, 62, 43, 62, 45, 62, 62,
      43, 91, 60, 93, 60, 45, 93, 62, 62, 46, 62, 45, 45, 45,
      46, 43, 43, 43, 43, 43, 43, 43, 46, 46, 43, 43, 43, 46,
      62, 62, 46, 60, 45, 46, 60, 46, 43, 43, 43, 46, 45, 45,
      45, 45, 45, 45, 46, 45, 45, 45, 45, 45, 45, 45, 45, 46,
      62, 62, 43, 46, 62, 43, 43, 46, 10>>

\* "Hello World!\n"
HelloWorldText ==
    <<72, 101, 108, 108, 111, 32, 87, 111, 114, 108, 100, 33, 10>>

InitHello ==
    /\ source = HelloWorldProgram
    /\ opt_checks \in BOOLEAN
    /\ opt_in = <<>>
    /\ opt_out = <<>>
    /\ opt_again = <<>>
    /\ opt_pc = "text"
    /\ Is(Idle)
    /\ raw = Idle

NewParse ==
    /\ opt_pc = "text"
    /\ opt_in' = parse(source)
    /\ opt_pc' = "compact"
    /\ UNCHANGED <<source, evars, raw, opt_checks, opt_out, opt_again>>

NewCompact ==
    /\ opt_pc = "compact"
    /\ Len(opt_in) >= 2
    /\ LET step == compact_step(opt_in, opt_checks)
       IN  IF step.panicked
           THEN opt_pc' = "panicked" /\ UNCHANGED <<opt_in, opt_out>>
           ELSE /\ opt_in' = step.next
                /\ opt_out' = opt_out \o step.kept
                /\ opt_pc' = "compact"
    /\ UNCHANGED <<source, evars, raw, opt_checks, opt_again>>

NewEngine ==
    /\ opt_pc = "compact"
    /\ Len(opt_in) < 2
    /\ Becomes(start(engine(opt_out \o opt_in), <<>>))
    /\ opt_pc' = "run"
    /\ UNCHANGED <<source, raw, opt_in, opt_checks, opt_out, opt_again>>

RunStep ==
    /\ opt_pc = "run"
    /\ Running
    /\ Becomes(run_step(M, opt_checks, "ok", "ok"))
    /\ UNCHANGED <<source, raw, ovars>>

NextHello ==
    \/ NewParse
    \/ NewCompact
    \/ NewEngine
    \/ RunStep

SpecHello == InitHello /\ [][NextHello]_vars /\ WF_vars(NextHello)

(***************************************************************************)
(* SpecRuns: Brainfuck::new and run, with the steps of SpecHello, on the   *)
(* texts made of one symbol '+' or '-' repeated k times, up to and past    *)
(* the k at which the count of the fused instruction leaves the u8 range.  *)
(***************************************************************************)
MaxRun == 257

InitRuns ==
    /\ \E k \in 1..MaxRun, b \in {43, 45} : source = [j \in 1..k |-> b]
    /\ opt_checks \in BOOLEAN
    /\ opt_in = <<>>
    /\ opt_out = <<>>
    /\ opt_again = <<>>
    /\ opt_pc = "text"
    /\ Is(Idle)
    /\ raw = Idle

SpecRuns == InitRuns /\ [][NextHello]_vars

(***************************************************************************)
(* brainfuck.rs: the engine that runs the bytes of the text themselves.    *)
(* Its run is a record like that of interpreter.rs, with program in place  *)
(* of instructions, pos = <<line, column>>, a stack of [ip, pos] entries   *)
(* and err, the Position carried by UnbalancedParens.  Some(c) is the byte *)
(* value c, None is -1.                                                    *)
(***************************************************************************)
byte_new(program) ==
    [program |-> program, ip |-> 0, tape |-> ZeroTape, dp |-> 0,
     stack |-> <<>>, pos |-> <<1, 1>>]

\* the engine at the call of run(input, output)
byte_start(e, inp) ==
    e @@ [input |-> inp, output |-> <<>>, result |-> "running",
          err |-> <<0, 0>>]

byte_current(m) ==
    IF m.ip < Len(m.program) THEN m.program[m.ip + 1] ELSE -1

byte_advance(m) ==
    [m EXCEPT !.ip = @ + 1, !.pos = <<@[1], @[2] + 1>>]

byte_pop(m) ==
    IF m.stack = <<>> THEN m
    ELSE [m EXCEPT !.stack = SubSeq(m.stack, 1, Len(m.stack) - 1)]

byte_push(m) ==
    [m EXCEPT !.stack = Append(m.stack, [ip |-> m.ip, pos |-> m.pos])]

\* the loop of advance_to_matching_paren from ip = from with depth c:
\* the ip at which it breaks, or -1 when it does not break (as scan)
RECURSIVE byte_scan(_, _, _)
byte_scan(program, from, c) ==
    LET ip1 == from + 1
        cur == IF ip1 < Len(program) THEN program[ip1 + 1] ELSE -1
    IN  IF cur \in {-1, 93} /\ c = 0 THEN ip1
        ELSE IF cur = 93 THEN byte_scan(program, ip1, c - 1)
        ELSE IF cur = 91 THEN byte_scan(program, ip1, c + 1)
        ELSE IF cur = -1 THEN -1
        ELSE byte_scan(program, ip1, c)

\* every iteration calls advance(): ip and the column grow together
byte_advance_to_matching_paren(m) ==
    LET to == byte_scan(m.program, m.ip, 0)
    IN  IF to < 0 THEN [m EXCEPT !.ip = Len(m.program), !.result = "Hang"]
        ELSE [m EXCEPT !.ip = to,
                       !.pos = <<@[1], @[2] + (to - m.ip)>>]

byte_return_to_matching_paren(m) ==
    IF m.stack = <<>>
    THEN [m EXCEPT !.result = "UnbalancedParens", !.err = m.pos]
    ELSE [m EXCEPT !.ip = m.stack[Len(m.stack)].ip,
                   !.pos = m.stack[Len(m.stack)].pos]

\* one iteration of the loop of run of brainfuck.rs, with collaborators
\* that behave as r, w; every arm but None and the error returns is
\* followed by advance()
byte_run_step(m, r, w) ==
    LET c == byte_current(m)
    IN  CASE c = 62 ->
               byte_advance([m EXCEPT !.dp = IF m.dp < TAPE_SIZE - 1
                                             THEN m.dp + 1 ELSE m.dp])
          [] c = 60 ->
               byte_advance([m EXCEPT !.dp = IF m.dp >= 1 THEN m.dp - 1
                                             ELSE 0])
          [] c = 43 ->
               byte_advance(set_byte(m, IF get_byte(m) + 1 <= U8_MAX
                                        THEN get_byte(m) + 1 ELSE 0))
          [] c = 45 ->
               byte_advance(set_byte(m, IF get_byte(m) >= 1
                                        THEN get_byte(m) - 1 ELSE U8_MAX))
          [] c = 46 ->
               IF w = "err" THEN [m EXCEPT !.result = "WriteError"]
               ELSE IF w = "zero" THEN byte_advance(m)
               ELSE byte_advance(
                        [m EXCEPT !.output = Append(m.output, get_byte(m))])
          [] c = 44 ->
               IF r = "err" THEN [m EXCEPT !.result = "ReadError"]
               ELSE LET buffer == IF m.input = <<>> THEN 0
                                  ELSE Head(m.input)
                        m1 == [m EXCEPT !.input = IF m.input = <<>> THEN <<>>
                                                  ELSE Tail(m.input)]
                    IN  byte_advance(set_byte(m1, buffer))
          [] c = 91 ->
               IF get_byte(m) = 0
               THEN LET m1 == byte_advance_to_matching_paren(m)
                    IN  IF m1.result = "Hang" THEN m1 ELSE byte_advance(m1)
               ELSE byte_advance(byte_push(m))
          [] c = 93 ->
               IF get_byte(m) # 0
               THEN LET m1 == byte_return_to_matching_paren(m)
                    IN  IF m1.result = "UnbalancedParens" THEN m1
                        ELSE byte_advance(m1)
               ELSE byte_advance(byte_pop(m))
          [] c = 10 ->
               byte_advance([m EXCEPT !.pos = <<@[1] + 1, 1>>])
          [] c = -1 -> [m EXCEPT !.result = "Ok"]
          [] OTHER -> byte_advance(m)

(***************************************************************************)
(* SpecBytes: run of brainfuck.rs on texts over the eight symbols, the     *)
(* newline and the space.  raw holds the run.                              *)
(***************************************************************************)
MaxTextLen == 4

TextBytes == {43, 45, 62, 60, 46, 44, 91, 93, 10, 32}

InitBytes ==
    /\ \E text \in BoundedSeq(TextBytes, MaxTextLen), inp \in Inputs :
          /\ source = text
          /\ raw = byte_start(byte_new(text), inp)
    /\ Is(Idle)
    /\ OptIdle

ByteRunning == raw.result = "running" /\ Bounded(raw)

ByteStep ==
    /\ ByteRunning
    /\ ~(byte_current(raw) = 46 /\ Len(raw.output) >= MaxOut)
    /\ raw' = byte_run_step(raw, "ok", "ok")
    /\ UNCHANGED <<source, evars, ovars>>

ByteReadFails ==
    /\ ByteRunning
    /\ byte_current(raw) = 44
    /\ raw' = byte_run_step(raw, "err", "ok")
    /\ UNCHANGED <<source, evars, ovars>>

ByteWriteFails ==
    /\ ByteRunning
    /\ byte_current(raw) = 46
    /\ raw' = byte_run_step(raw, "ok", "err")
    /\ UNCHANGED <<source, evars, ovars>>

ByteWriteTakesNone ==
    /\ ByteRunning
    /\ byte_current(raw) = 46
    /\ Len(raw.output) >= MaxOut
    /\ raw' = byte_run_step(raw, "ok", "zero")
    /\ UNCHANGED <<source, evars, ovars>>

NextBytes ==
    \/ ByteStep
    \/ ByteReadFails
    \/ ByteWriteFails
    \/ ByteWriteTakesNone

SpecBytes == InitBytes /\ [][NextBytes]_vars

(***************************************************************************)
(* Notions the properties use.                                             *)
(***************************************************************************)
\* run has returned to its caller
Returned(r) == r \in {"Ok", "UnbalancedParens"}

\* the instructions of kind op among instrs[lo..hi] (positions from 1)
Count(instrs, op, lo, hi) ==
    Cardinality({k \in lo..hi : instrs[k].op = op})

\* nesting depth after the first k instructions
Depth(instrs, k) == Count(instrs, "Open", 1, k) - Count(instrs, "Close", 1, k)

\* the brackets of instrs are correctly nested
Balanced(instrs) ==
    /\ \A k \in 1..Len(instrs) : Depth(instrs, k) >= 0
    /\ Depth(instrs, Len(instrs)) = 0

\* the Open at position p of instrs has a matching Close after it
HasMatch(instrs, p) ==
    \E j \in (p + 1)..Len(instrs) :
        /\ instrs[j].op = "Close"
        /\ Count(instrs, "Open", p + 1, j - 1)
             = Count(instrs, "Close", p + 1, j - 1)

Counted == {"Add", "Sub", "Right", "Left"}

Opposite(op) ==
    CASE op = "Add" -> "Sub"
      [] op = "Sub" -> "Add"
      [] op = "Right" -> "Left"
      [] op = "Left" -> "Right"
      [] OTHER -> "None"

FusionApplies(a, b) == a.op = b.op /\ a.op \in Counted

\* the summed count of a and b is a count of their kind of instruction
SumFits(a, b) == a.op \in {"Add", "Sub"} => a.n + b.n <= U8_MAX

CancelApplies(a, b) ==
    a.op \in Counted /\ b.op = Opposite(a.op) /\ a.n = b.n

\* s with the pair at positions i, i + 1 replaced by one instruction of
\* the summed count
FuseAt(s, i) ==
    SubSeq(s, 1, i - 1)
        \o <<[op |-> s[i].op, n |-> s[i].n + s[i + 1].n]>>
        \o SubSeq(s, i + 2, Len(s))

Optimized == opt_pc \in {"once", "twice"}

(***************************************************************************)
(* Properties.                                                             *)
(***************************************************************************)

\* C1: when the run on the parsed instructions and the run on their
\* optimized form, against the same input, have both returned, they have
\* written the same output and left the same tape.
C1_SameOutputAndTape ==
    (Returned(result) /\ Returned(raw.result))
        => (output = raw.output /\ tape = raw.tape)

\* C2: in every state of run the data pointer is inside the tape,
\* 0 <= dp < TAPE_SIZE.
C2_DpInsideTape == 0 <= dp /\ dp < TAPE_SIZE

\* C3: a step of run that executes Add(n) leaves (tape[dp] + n) mod 256 in
\* the cell, for every cell value and every n.
C3_AddWraps ==
    [][(Running /\ current(M).op = "Add" /\ in_bounds(M))
          => /\ result' = "running"
             /\ cell(tape', dp)
                  = (cell(tape, dp) + current(M).n) % (U8_MAX + 1)]_vars

\* C4: a step of run that executes Close while the loop stack is empty
\* returns UnbalancedParens, whatever the current cell holds.
C4_CloseOnEmptyStackFails ==
    [][(Running /\ current(M).op = "Close" /\ in_bounds(M) /\ stack = <<>>)
          => result' = "UnbalancedParens"]_vars

\* C5: on a program with correctly nested brackets, as long as no
\* collaborator has failed, run is still going or has returned Ok: it has
\* neither returned UnbalancedParens nor aborted on a tape access.
C5_BalancedRunsSucceed ==
    (Balanced(instructions) /\ result \notin {"ReadError", "WriteError"})
        => result \in {"running", "Ok"}

\* C6: optimize is idempotent and its result is a fixed point: optimizing
\* the result again returns it unchanged, and no fusion or cancellation
\* rule applies to two adjacent instructions of the result.
C6_OptimizeIdempotent ==
    /\ opt_pc = "twice" => opt_again = opt_out
    /\ Optimized =>
          \A i \in 1..(Len(opt_out) - 1) :
              /\ ~FusionApplies(opt_out[i], opt_out[i + 1])
              /\ ~CancelApplies(opt_out[i], opt_out[i + 1])

\* C7: fusion law in any context: wherever two adjacent instructions of
\* the same counted kind stand in the input, optimize returns what it
\* returns on the input with the pair replaced by one instruction of the
\* summed count (a count that the instruction can carry).
C7_FusionAnyContext ==
    Optimized =>
        \A i \in 1..(Len(opt_in) - 1) :
            (/\ FusionApplies(opt_in[i], opt_in[i + 1])
             /\ SumFits(opt_in[i], opt_in[i + 1]))
                => opt_out = optimize(FuseAt(opt_in, i), opt_checks)

\* C7 as amended: the fusion law holds for a pair that stands first in the
\* input or whose predecessor is not the opposite instruction (Sub before
\* an Add pair, Add before a Sub pair, Left before a Right pair, Right
\* before a Left pair).
C7_FusionUnlessAfterOpposite ==
    Optimized =>
        \A i \in 1..(Len(opt_in) - 1) :
            (/\ FusionApplies(opt_in[i], opt_in[i + 1])
             /\ SumFits(opt_in[i], opt_in[i + 1])
             /\ (i = 1 \/ opt_in[i - 1].op # Opposite(opt_in[i].op)))
                => opt_out = optimize(FuseAt(opt_in, i), opt_checks)

\* C7 witness: a pair of Adds between two Outs has been fused.
C7_Witness ==
    /\ opt_pc = "once"
    /\ opt_in = <<Out, Add(1), Add(2), Out>>
    /\ opt_out = <<Out, Add(3), Out>>

\* C8: when the run on the parsed instructions and the run on their
\* optimized form have both returned, they have returned the same result:
\* both Ok or both UnbalancedParens.
C8_SameResult ==
    (Returned(result) /\ Returned(raw.result)) => result = raw.result

\* C9: a step of run that executes Open on a zero cell with no matching
\* Close after it ends the scan at the end of the sequence with run still
\* going, so that the next step returns Ok.
C9_UnmatchedOpenEndsRun ==
    [][(/\ Running /\ current(M).op = "Open" /\ in_bounds(M)
        /\ get_byte(M) = 0
        /\ ~HasMatch(instructions, ip + 1))
          => (result' = "running" /\ ip' >= Len(instructions))]_vars

\* C10: a step of run that executes Sub(n) leaves (tape[dp] - n) mod 256
\* in the cell, for every cell value and every n of a u8, and does not
\* panic on an overflow of the wrap computation under either build.
C10_SubWraps ==
    [][(Running /\ current(M).op = "Sub" /\ in_bounds(M))
          => /\ result' = "running"
             /\ cell(tape', dp)
                  = (cell(tape, dp) - current(M).n) % (U8_MAX + 1)]_vars

\* C10 witness: Sub(1) has been executed on a zero cell, which holds 255.
C10_Witness ==
    /\ instructions = <<In, Sub(1)>>
    /\ input = <<>>
    /\ ip = 2
    /\ result = "running"
    /\ cell(tape, 0) = 255

\* Out, In, Open and Close: the instructions no rule of the optimizer names
IsBarrier(i) == i.op \notin Counted

Barriers(s) == SelectSeq(s, IsBarrier)

\* s optimized piece by piece: each maximal run of Add/Sub/Right/Left on
\* its own, the Out/In/Open/Close between the runs kept where they are
RECURSIVE PieceWise(_, _)
PieceWise(s, checks) ==
    LET at == {k \in 1..Len(s) : IsBarrier(s[k])}
    IN  IF at = {} THEN optimize(s, checks)
        ELSE LET p == CHOOSE k \in at : \A j \in at : k <= j
                 head == optimize(SubSeq(s, 1, p - 1), checks)
                 tail == PieceWise(SubSeq(s, p + 1, Len(s)), checks)
             IN  IF head = PANICKED \/ tail = PANICKED THEN PANICKED
                 ELSE head \o <<s[p]>> \o tail

\* C11: optimize keeps the Out, In, Open and Close of its input, each one
\* and in their order, and never fuses or cancels across one of them: its
\* result is the runs of Add/Sub/Right/Left between them, each optimized
\* on its own, with the Out/In/Open/Close in place.
C11_BarriersKept ==
    Optimized =>
        /\ opt_out = PieceWise(opt_in, opt_checks)
        /\ opt_out # PANICKED => Barriers(opt_out) = Barriers(opt_in)

\* C11 witness: an Add and a Sub of equal count with an Out between them
\* have been left as they are.
C11_Witness ==
    /\ opt_pc = "once"
    /\ opt_in = <<Add(1), Out, Sub(1)>>
    /\ opt_out = <<Add(1), Out, Sub(1)>>

\* C12: a read that fails at an In makes run return ReadError, a write
\* that fails at an Out makes it return WriteError; the step that returns
\* either leaves instructions, ip, tape, dp, the loop stack and the output
\* written so far as they were, so ip still names the failing instruction;
\* and once run has returned no instruction is executed.
C12_IoFailureStopsInPlace ==
    [][/\ Running
       /\ ReadFails => result' = "ReadError"
       /\ (WriteFails /\ in_bounds(M)) => result' = "WriteError"
       /\ result' \in {"ReadError", "WriteError"} =>
              /\ current(M).op = (IF result' = "ReadError" THEN "In"
                                  ELSE "Out")
              /\ UNCHANGED <<instructions, ip, tape, dp, stack, output>>]_vars

\* C12 witness: the second Out of a program failed after the first had
\* written its byte; run returned WriteError with ip on the failing Out.
C12_Witness ==
    /\ instructions = <<Add(1), Out, Out>>
    /\ result = "WriteError"
    /\ ip = 2
    /\ output = <<1>>
    /\ cell(tape, 0) = 1

\* C13: every In whose read succeeds takes the first byte off the input
\* stream and stores it in tape[dp]; at the end of the stream it stores 0
\* whatever the cell held; either way run goes on to the next instruction
\* without an error.
C13_InStoresNextByte ==
    [][ExecIn =>
          /\ result' = "running"
          /\ ip' = ip + 1
          /\ input' = (IF input = <<>> THEN <<>> ELSE Tail(input))
          /\ tape' = store(tape, dp,
                           IF input = <<>> THEN 0 ELSE Head(input))]_vars

\* the eight bytes of the language: + - > < . , [ ]
Symbols == {43, 45, 62, 60, 46, 44, 91, 93}

IsSymbol(b) == b \in Symbols

Image(b) ==
    CASE b = 43 -> Add(1)
      [] b = 45 -> Sub(1)
      [] b = 62 -> Right(1)
      [] b = 60 -> Left(1)
      [] b = 46 -> Out
      [] b = 44 -> In
      [] b = 91 -> Open
      [] b = 93 -> Close

\* C14: parse returns, for any text, the images of its symbol bytes in the
\* order of the text and nothing for any other byte: as many instructions
\* as the text has symbol bytes, whether or not its brackets balance.
C14_ParseIsImageOfSymbols ==
    opt_pc = "parsed" =>
        LET kept == SelectSeq(source, IsSymbol)
        IN  /\ Len(opt_in) = Len(kept)
            /\ Len(opt_in) = Cardinality({k \in 1..Len(source) :
                                             IsSymbol(source[k])})
            /\ \A k \in 1..Len(kept) : opt_in[k] = Image(kept[k])

\* C14 witness: a text with a ']' before its '[' and other bytes between
\* them has been parsed to Close, Open.
C14_Witness ==
    /\ opt_pc = "parsed"
    /\ source = <<93, 10, 97, 91>>
    /\ opt_in = <<Close, Open>>

\* the two instructions of kinds op and its opposite, both of count n
OppositePair(op, n) == <<[op |-> op, n |-> n], [op |-> Opposite(op), n |-> n]>>

\* C15: optimize returns the empty sequence on [Add(n), Sub(n)],
\* [Sub(n), Add(n)], [Right(n), Left(n)] and [Left(n), Right(n)]: on the
\* pair it was given, and on the same pair of kinds with any count n from
\* 1 to 255.
C15_OppositePairsCancel ==
    (Optimized /\ Len(opt_in) = 2 /\ CancelApplies(opt_in[1], opt_in[2])) =>
        /\ opt_out = <<>>
        /\ \A n \in 1..U8_MAX :
              optimize(OppositePair(opt_in[1].op, n), opt_checks) = <<>>

\* C15 witness: optimize has been applied to [Left(2), Right(2)] and has
\* returned the empty sequence.
C15_Witness ==
    /\ opt_pc = "once"
    /\ opt_in = <<Left(2), Right(2)>>
    /\ opt_out = <<>>

\* C16: the engine built from the Hello World text of test hello_world and
\* run on empty input returns Ok(()), and from then on its output is the
\* bytes of "Hello World!\n" and nothing else.
C16_HelloWorld == <>[](result = "Ok" /\ output = HelloWorldText)

\* C16 witness: the run on the Hello World program has returned Ok(())
\* with the thirteen bytes written.
C16_Witness ==
    /\ source = HelloWorldProgram
    /\ opt_pc = "run"
    /\ ip = Len(instructions)
    /\ result = "Ok"
    /\ Len(output) = 13
    /\ output = HelloWorldText

Min(x, y) == IF x <= y THEN x ELSE y

Max(x, y) == IF x >= y THEN x ELSE y

\* C17: from a dp inside the tape, executing Right(n) sets dp to
\* min(dp + n, TAPE_SIZE - 1) and executing Left(n) sets it to
\* max(dp - n, 0); neither changes the tape or the loop stack.
C17_MovesClampToTape ==
    [][/\ (ExecRight /\ in_bounds(M)) =>
              /\ dp' = Min(dp + current(M).n, TAPE_SIZE - 1)
              /\ UNCHANGED <<tape, stack>>
       /\ (ExecLeft /\ in_bounds(M)) =>
              /\ dp' = Max(dp - current(M).n, 0)
              /\ UNCHANGED <<tape, stack>>]_vars

\* the Close that closes the Open at position p of instrs: the first
\* Close after p with as many Opens as Closes between the two
MatchOf(instrs, p) ==
    CHOOSE j \in (p + 1)..Len(instrs) :
        /\ instrs[j].op = "Close"
        /\ Count(instrs, "Open", p + 1, j - 1)
             = Count(instrs, "Close", p + 1, j - 1)
        /\ \A k \in (p + 1)..(j - 1) :
              ~(/\ instrs[k].op = "Close"
                /\ Count(instrs, "Open", p + 1, k - 1)
                     = Count(instrs, "Close", p + 1, k - 1))

\* C18: executing an Open on a zero cell when its matching Close exists
\* moves ip, in that one step, to the instruction after the matching
\* Close, however deep the body nests; nothing is pushed on the loop
\* stack, the tape and dp stay as they were, and nothing of the body is
\* executed (no byte is read or written).
C18_OpenOnZeroSkipsBody ==
    [][(/\ ExecOpen
        /\ in_bounds(M)
        /\ get_byte(M) = 0
        /\ HasMatch(instructions, ip + 1)) =>
           /\ ip' = MatchOf(instructions, ip + 1)
           /\ result' = "running"
           /\ UNCHANGED <<tape, dp, stack, input, output>>]_vars

\* C18 witness: the outer Open of [[]] met a zero cell and the step ended
\* after the outer Close, past the nested pair, with nothing pushed.
C18_Witness ==
    /\ instructions = <<Open, Open, Close, Close>>
    /\ ip = 4
    /\ stack = <<>>
    /\ tape = ZeroTape
    /\ result = "running"

\* C19: executing a Close on a nonzero cell with a non-empty loop stack
\* makes the instruction after the Open whose index is on top of the
\* stack the next one to execute, and leaves the stack as it was (nothing
\* popped, nothing pushed), as well as the tape and dp.
C19_CloseOnNonzeroLoopsBack ==
    [][(/\ ExecClose
        /\ in_bounds(M)
        /\ get_byte(M) # 0
        /\ stack # <<>>) =>
           /\ ip' = stack[Len(stack)] + 1
           /\ stack' = stack
           /\ result' = "running"
           /\ UNCHANGED <<tape, dp, input, output>>]_vars

\* C19 witness: in +2 [ -1 ] the Close met the cell at 1 after the first
\* pass and went back to the Sub, the stack still holding the one index of
\* the Open.
C19_Witness ==
    /\ instructions = <<Add(2), Open, Sub(1), Close>>
    /\ ip = 2
    /\ cell(tape, 0) = 1
    /\ stack = <<1>>
    /\ result = "running"

\* C20: while run is on a program whose brackets are correctly nested,
\* the loop stack has as many entries as there are Opens less Closes
\* among the instructions below ip, every entry is the index of an Open,
\* the entries increase strictly from bottom to top, and the stack is
\* empty once run has returned Ok(()).
C20_StackIsNesting ==
    Balanced(instructions) =>
        /\ Len(stack) = Depth(instructions, ip)
        /\ \A k \in 1..Len(stack) :
              /\ stack[k] < Len(instructions)
              /\ instructions[stack[k] + 1].op = "Open"
        /\ \A k \in 1..(Len(stack) - 1) : stack[k] < stack[k + 1]
        /\ result = "Ok" => stack = <<>>

\* C20 witness: inside the inner loop of + [ [ ] ] the stack holds the
\* indices of the two Opens, outer below inner.
C20_Witness ==
    /\ instructions = <<Add(1), Open, Open, Close, Close>>
    /\ ip = 3
    /\ stack = <<1, 2>>
    /\ result = "running"

\* C21: optimize does not fail on k consecutive Add(1) (or Sub(1)) and
\* returns the single instruction Add(k) (or Sub(k)), the count being the
\* exact sum k, for every k >= 1, k >= 256 included.
C21_FusesToExactSum ==
    /\ opt_pc # "panicked"
    /\ opt_pc = "run" =>
          instructions = <<[op |-> Image(source[1]).op, n |-> Len(source)]>>

\* C22: every Out that run executes and goes on from has had its byte,
\* the value of tape[dp], accepted by the output: the output grows by
\* exactly that byte, so a run that returns Ok(()) has emitted one byte
\* per executed Out, in order.
C22_EachOutEmitsItsByte ==
    [][(At("Out") /\ result' = "running") =>
          output' = Append(output, get_byte(M))]_vars

\* the 1-based <<line, column>> of the byte at index at of program: one
\* line per newline before it, one column per byte since the last of them
PositionOf(program, at) ==
    LET nl == {k \in 1..at : program[k] = 10}
        last == IF nl = {} THEN 0 ELSE CHOOSE k \in nl : \A j \in nl : j <= k
    IN  <<1 + Cardinality(nl), 1 + (at - last)>>

\* C23: in the engine of brainfuck.rs, whenever run is about to execute
\* the byte at ip, pos is the line and column of that byte in the text,
\* and the Position carried by UnbalancedParens is the line and column of
\* the ']' that run stopped on.
C23_PosIsLineAndColumn ==
    /\ (raw.result = "running" /\ raw.ip < Len(raw.program)) =>
          raw.pos = PositionOf(raw.program, raw.ip)
    /\ raw.result = "UnbalancedParens" =>
          raw.err = PositionOf(raw.program, raw.ip)

====
